---- MODULE Spec2Model ----
(***************************************************************************)
(* Model of generate_mask.py: the command-line orchestrator that segments  *)
(* knee MRI volumes (parse_args, generate_mask, calculate_t2_maps).        *)
(* One run of the script is one behaviour: the module's imports, argument  *)
(* parsing and validation, mask generation, and the T2 call at the end.    *)
(* The collaborators (utils, models, im_utils, dess_utils, os) are the     *)
(* environment: each call either returns a value or raises.                *)
(***************************************************************************)
EXTENDS Naturals, Integers, Sequences, FiniteSets, TLC

VARIABLES
    pc,          \* position in the script
    err,         \* the exception that ended the run, NoError while running
    args,        \* the argparse namespace (parse_args, line 102)
    environ,     \* os.environ['CUDA_VISIBLE_DEVICES']
    fs,          \* the file system: path -> "dir" | "file" | "absent"
    calls,       \* the calls made into collaborators, in order
    dicom_path,  \* local of parse_args
    save_path,   \* local of parse_args
    num_echos,   \* local of parse_args
    batch_size,  \* models.BATCH_SIZE
    calculate_t2_maps, \* local of parse_args (line 130); it shadows the function
    tissue_strs, \* local of parse_args
    volume,      \* local of generate_mask / calculate_t2_maps
    subvolumes,  \* local of generate_mask
    idx,         \* position of the for loops (1-based)
    mask,        \* local of generate_mask: the mask of the current tissue
    gm_masks,    \* local masks of generate_mask (an insertion-ordered dict)
    masks,       \* masks of parse_args / parameter of calculate_t2_maps
    files,       \* files written by im_utils.write_3d in this run
    segInputs,   \* the arguments of every models.generate_mask call
    t2_map,      \* local of calculate_t2_maps
    t2_vals      \* local of calculate_t2_maps (an insertion-ordered dict)

vars == <<pc, err, args, environ, fs, calls, dicom_path, save_path, num_echos,
          batch_size, calculate_t2_maps, tissue_strs, volume, subvolumes, idx, mask,
          gm_masks, masks, files, segInputs, t2_map, t2_vals>>

----------------------------------------------------------------------------
(* Bounds and values *)

\* A loaded volume has 1..MaxSlices slices.
MaxSlices == 3

\* Python's None, for the optional argparse values.
None == "<None>"

\* models.*_STR: the four tissue identifiers.
FEMORAL_CARTILAGE_STR == "femoral_cartilage"
TIBIAL_CARTILAGE_STR == "tibial_cartilage"
MENISCUS_STR == "meniscus"
PATELLAR_CARTILAGE_STR == "patellar_cartilage"

Tissues == {FEMORAL_CARTILAGE_STR, TIBIAL_CARTILAGE_STR, MENISCUS_STR,
            PATELLAR_CARTILAGE_STR}

\* dess_utils.NUM_ECHOS
NUM_ECHOS == 2

\* --batch_size default (line 98)
DefaultBatchSize == 32

\* The paths a run is given: D for -d, S or D for -s.
Paths == {"D", "S"}
Kinds == {"dir", "file", "absent"}

\* The exceptions that end a run.
NoError == "none"
NoDicomError == "ValueError: No path to dicom provided"
DirectoryError == "NotADirectoryError: Directory does not exist"
DessError == "ValueError: calculating t2 maps only compatible with DESS dicoms. Please specify the --dess flag"
NoneTypePathError == "TypeError: stat: path should be string, bytes, os.PathLike or integer, not NoneType"
FileExistsError == "FileExistsError"
ShapeAssertionError == "AssertionError"
NotCallableError == "TypeError: 'bool' object is not callable"
LoadError == "utils.load_dicom raised"
SegmentError == "models.generate_mask raised"
WriteError == "im_utils.write_3d raised"
T2Error == "dess_utils raised"

\* Volumes: the slices kept (by index in the loaded series), the echo the
\* volume is (-1: the loaded volume, not split), whitened or not.
NoVolume == [slices |-> <<>>, echo |-> -1, white |-> FALSE]
Shape(v) == Len(v.slices)

NoMask == [shape |-> 0, tissue |-> None]

\* Insertion-ordered dict, as a sequence of <<key, value>> pairs.
DictKeys(d) == [k \in 1..Len(d) |-> d[k][1]]
DictKeySet(d) == {d[k][1] : k \in 1..Len(d)}
DictSet(d, key, val) ==
    IF key \in DictKeySet(d)
    THEN [k \in 1..Len(d) |-> IF d[k][1] = key THEN <<key, val>> ELSE d[k]]
    ELSE Append(d, <<key, val>>)

\* A local that is not assigned yet, and one that is.
Unbound == [bound |-> FALSE, val |-> <<>>]
Bound(d) == [bound |-> TRUE, val |-> d]

NoArgs == [dicom |-> None, save |-> "", f |-> None, t |-> None, m |-> None,
           p |-> None, dess |-> FALSE, t2 |-> FALSE, batch_size |-> DefaultBatchSize,
           gpu |-> None]

\* What parser.parse_args() can return (lines 70-102).
Namespaces ==
    [dicom : {None, "D"},
     save : {"", None, "D", "S"},
     f : {None, FEMORAL_CARTILAGE_STR},
     t : {None, TIBIAL_CARTILAGE_STR},
     m : {None, MENISCUS_STR},
     p : {None, PATELLAR_CARTILAGE_STR},
     dess : BOOLEAN,
     t2 : BOOLEAN,
     batch_size : {DefaultBatchSize},
     gpu : {None, "0"}]

----------------------------------------------------------------------------
(* Collaborators *)

\* utils.split_volume(volume, echos): sub-volume e takes slices e, e+echos, ...
SplitVolume(v, echos) ==
    [e \in 1..echos |->
        [slices |-> SelectSeq(v.slices, LAMBDA s : s % echos = e - 1),
         echo |-> e - 1, white |-> FALSE]]

\* utils.whiten_volume(volume): same shape, normalised intensities.
WhitenVolume(v) == [v EXCEPT !.white = TRUE]

\* os.path.isdir(path)
IsDir(path) == path \in DOMAIN fs /\ fs[path] = "dir"

----------------------------------------------------------------------------
(* The script *)

Raise(e) == pc' = "error" /\ err' = e

Init ==
    /\ pc = "import"
    /\ err = NoError
    /\ args = NoArgs
    /\ environ = None
    /\ fs \in [Paths -> Kinds]
    /\ calls = <<>>
    /\ dicom_path = None
    /\ save_path = None
    /\ num_echos = 0
    /\ batch_size = 0
    /\ calculate_t2_maps = FALSE
    /\ tissue_strs = <<>>
    /\ volume = NoVolume
    /\ subvolumes = <<>>
    /\ idx = 0
    /\ mask = NoMask
    /\ gm_masks = <<>>
    /\ masks = Unbound
    /\ files = {}
    /\ segInputs = <<>>
    /\ t2_map = NoVolume
    /\ t2_vals = <<>>

\* Lines 1-9: the imports run before anything else; `import models` loads
\* the models module.
Import ==
    /\ pc = "import"
    /\ calls' = Append(calls, "import models")
    /\ pc' = "parse"
    /\ UNCHANGED <<err, args, environ, fs, dicom_path, save_path, num_echos,
                   batch_size, calculate_t2_maps, tissue_strs, volume, subvolumes, idx,
                   mask, gm_masks, masks, files, segInputs, t2_map, t2_vals>>

\* Lines 66-102: the parser is built (reading the models.*_STR constants for
\* -f -t -m -p) and the command line is parsed.
ParseCommandLine ==
    /\ pc = "parse"
    /\ \E ns \in Namespaces : args' = ns
    /\ calls' = Append(calls, "read models.*_STR")
    /\ pc' = "gpu"
    /\ UNCHANGED <<err, environ, fs, dicom_path, save_path, num_echos,
                   batch_size, calculate_t2_maps, tissue_strs, volume, subvolumes, idx,
                   mask, gm_masks, masks, files, segInputs, t2_map, t2_vals>>

\* Lines 103-106
SetGpu ==
    /\ pc = "gpu"
    /\ IF args.gpu # None
       THEN /\ environ' = args.gpu
            /\ calls' = Append(calls, "set CUDA_VISIBLE_DEVICES")
       ELSE UNCHANGED <<environ, calls>>
    /\ pc' = "dicom"
    /\ UNCHANGED <<err, args, fs, dicom_path, save_path, num_echos,
                   batch_size, calculate_t2_maps, tissue_strs, volume, subvolumes, idx,
                   mask, gm_masks, masks, files, segInputs, t2_map, t2_vals>>

\* Variant of GetDicomPath: a missing -d is not detected.
GetDicomPath_NoRaise ==
    /\ pc = "dicom"
    /\ dicom_path' = args.dicom
    /\ pc' = "save"
    /\ UNCHANGED err
    /\ UNCHANGED <<args, environ, fs, calls, save_path, num_echos,
                   batch_size, calculate_t2_maps, tissue_strs, volume, subvolumes, idx,
                   mask, gm_masks, masks, files, segInputs, t2_map, t2_vals>>

\* Lines 108-111: args.dicom is None without -d, and None[0] raises.
GetDicomPath ==
    /\ pc = "dicom"
    /\ IF args.dicom = None
       THEN Raise(NoDicomError) /\ UNCHANGED dicom_path
       ELSE dicom_path' = args.dicom /\ pc' = "save" /\ UNCHANGED err
    /\ UNCHANGED <<args, environ, fs, calls, save_path, num_echos,
                   batch_size, calculate_t2_maps, tissue_strs, volume, subvolumes, idx,
                   mask, gm_masks, masks, files, segInputs, t2_map, t2_vals>>

\* Lines 113-115
ResolveSavePath ==
    /\ pc = "save"
    /\ save_path' = IF args.save = "" THEN dicom_path ELSE args.save
    /\ pc' = "isdir"
    /\ UNCHANGED <<err, args, environ, fs, calls, dicom_path, num_echos,
                   batch_size, calculate_t2_maps, tissue_strs, volume, subvolumes, idx,
                   mask, gm_masks, masks, files, segInputs, t2_map, t2_vals>>

\* Variant of CheckDicomDir: the dicom path is not validated.
CheckDicomDir_NoCheck ==
    /\ pc = "isdir"
    /\ pc' = "mkdir"
    /\ UNCHANGED <<err, calls>>
    /\ UNCHANGED <<args, environ, fs, dicom_path, save_path, num_echos,
                   batch_size, calculate_t2_maps, tissue_strs, volume, subvolumes, idx,
                   mask, gm_masks, masks, files, segInputs, t2_map, t2_vals>>

\* Lines 117-121
CheckDicomDir ==
    /\ pc = "isdir"
    /\ calls' = Append(calls, "os.path.isdir")
    /\ IF ~IsDir(dicom_path)
       THEN Raise(DirectoryError)
       ELSE pc' = "mkdir" /\ UNCHANGED err
    /\ UNCHANGED <<args, environ, fs, dicom_path, save_path, num_echos,
                   batch_size, calculate_t2_maps, tissue_strs, volume, subvolumes, idx,
                   mask, gm_masks, masks, files, segInputs, t2_map, t2_vals>>

\* Lines 123-124: os.path.isdir(None) raises TypeError (a bare -s);
\* os.makedirs raises FileExistsError when the path is a file.
EnsureSaveDir ==
    /\ pc = "mkdir"
    /\ IF save_path = None
       THEN /\ calls' = Append(calls, "os.path.isdir")
            /\ Raise(NoneTypePathError)
            /\ UNCHANGED fs
       ELSE IF IsDir(save_path)
       THEN /\ calls' = Append(calls, "os.path.isdir")
            /\ pc' = "flags"
            /\ UNCHANGED <<err, fs>>
       ELSE /\ calls' = calls \o <<"os.path.isdir", "os.makedirs">>
            /\ IF fs[save_path] = "file"
               THEN Raise(FileExistsError) /\ UNCHANGED fs
               ELSE /\ fs' = [fs EXCEPT ![save_path] = "dir"]
                    /\ pc' = "flags"
                    /\ UNCHANGED err
    /\ UNCHANGED <<args, environ, dicom_path, save_path, num_echos,
                   batch_size, calculate_t2_maps, tissue_strs, volume, subvolumes, idx,
                   mask, gm_masks, masks, files, segInputs, t2_map, t2_vals>>

\* Variant of CheckDessT2: the flag combination is not validated.
CheckDessT2_NoCheck ==
    /\ pc = "flags"
    /\ calculate_t2_maps' = args.t2
    /\ pc' = "config"
    /\ UNCHANGED err
    /\ UNCHANGED <<args, environ, fs, calls, dicom_path, save_path, num_echos,
                   batch_size, tissue_strs, volume, subvolumes, idx,
                   mask, gm_masks, masks, files, segInputs, t2_map, t2_vals>>

\* Lines 129-133
CheckDessT2 ==
    /\ pc = "flags"
    /\ calculate_t2_maps' = args.t2
    /\ IF ~args.dess /\ args.t2
       THEN Raise(DessError)
       ELSE pc' = "config" /\ UNCHANGED err
    /\ UNCHANGED <<args, environ, fs, calls, dicom_path, save_path, num_echos,
                   batch_size, tissue_strs, volume, subvolumes, idx,
                   mask, gm_masks, masks, files, segInputs, t2_map, t2_vals>>

\* Line 136
NumEchos(dess) == IF dess THEN NUM_ECHOS ELSE 1

\* Variant of SelectTissues: no default when no tissue flag is given.
SelectTissues_NoDefault(a) ==
    SelectSeq(<<a.f, a.t, a.m, a.p>>, LAMBDA x : x # None)

\* Lines 143-146
SelectTissues(a) ==
    LET given == SelectSeq(<<a.f, a.t, a.m, a.p>>, LAMBDA x : x # None)
    IN  IF Len(given) = 0
        THEN <<FEMORAL_CARTILAGE_STR, TIBIAL_CARTILAGE_STR, MENISCUS_STR,
               PATELLAR_CARTILAGE_STR>>
        ELSE given

\* Lines 135-148: the parameters of generate_mask, and the call.
Configure ==
    /\ pc = "config"
    /\ num_echos' = NumEchos(args.dess)
    /\ batch_size' = args.batch_size
    /\ tissue_strs' = SelectTissues(args)
    /\ pc' = "gm_load"
    /\ UNCHANGED <<err, args, environ, fs, calls, dicom_path, save_path,
                   calculate_t2_maps, volume, subvolumes, idx,
                   mask, gm_masks, masks, files, segInputs, t2_map, t2_vals>>

\* Line 20: utils.load_dicom returns the volume of the series, or raises.
GM_Load ==
    /\ pc = "gm_load"
    /\ calls' = Append(calls, "utils.load_dicom")
    /\ \/ \E n \in 1..MaxSlices :
             /\ volume' = [slices |-> [k \in 1..n |-> k - 1], echo |-> -1,
                           white |-> FALSE]
             /\ pc' = "gm_split"
             /\ UNCHANGED err
       \/ Raise(LoadError) /\ UNCHANGED volume
    /\ UNCHANGED <<args, environ, fs, dicom_path, save_path, num_echos,
                   batch_size, calculate_t2_maps, tissue_strs, subvolumes, idx,
                   mask, gm_masks, masks, files, segInputs, t2_map, t2_vals>>

\* Variant of FirstEcho: the last echo is taken.
LastEcho(subvols) == subvols[Len(subvols)]

\* Line 25: the first echo is the one segmented.
FirstEcho(subvols) == subvols[1]

\* Lines 22-30
GM_Split ==
    /\ pc = "gm_split"
    /\ subvolumes' = SplitVolume(volume, num_echos)
    /\ volume' = WhitenVolume(FirstEcho(subvolumes'))
    /\ gm_masks' = <<>>
    /\ idx' = 1
    /\ pc' = "gm_loop"
    /\ UNCHANGED <<err, args, environ, fs, calls, dicom_path, save_path,
                   num_echos, batch_size, calculate_t2_maps, tissue_strs,
                   mask, masks, files, segInputs, t2_map, t2_vals>>

\* Variant of GM_Segment: the shape of the mask is not asserted.
GM_Segment_NoAssert ==
    /\ pc = "gm_loop"
    /\ idx <= Len(tissue_strs)
    /\ calls' = Append(calls, "models.generate_mask")
    /\ segInputs' = Append(segInputs, [volume |-> volume, tissue |-> tissue_strs[idx]])
    /\ \/ \E s \in 0..MaxSlices :
             /\ mask' = [shape |-> s, tissue |-> tissue_strs[idx]]
             /\ pc' = "gm_write"
             /\ UNCHANGED err
       \/ Raise(SegmentError) /\ UNCHANGED mask
    /\ UNCHANGED <<args, environ, fs, dicom_path, save_path, num_echos,
                   batch_size, calculate_t2_maps, tissue_strs, volume,
                   subvolumes, idx, gm_masks, masks, files, t2_map, t2_vals>>

\* Lines 31-34: the next tissue is segmented; the mask has any shape, and
\* the assertion raises unless it is the volume's.
GM_Segment ==
    /\ pc = "gm_loop"
    /\ idx <= Len(tissue_strs)
    /\ calls' = Append(calls, "models.generate_mask")
    /\ segInputs' = Append(segInputs, [volume |-> volume, tissue |-> tissue_strs[idx]])
    /\ \/ \E s \in 0..MaxSlices :
             /\ mask' = [shape |-> s, tissue |-> tissue_strs[idx]]
             /\ IF Shape(volume) = s
                THEN pc' = "gm_write" /\ UNCHANGED err
                ELSE Raise(ShapeAssertionError)
       \/ Raise(SegmentError) /\ UNCHANGED mask
    /\ UNCHANGED <<args, environ, fs, dicom_path, save_path, num_echos,
                   batch_size, calculate_t2_maps, tissue_strs, volume,
                   subvolumes, idx, gm_masks, masks, files, t2_map, t2_vals>>

\* Variant of MaskFilepath: plain concatenation instead of os.path.join.
MaskFilepath_NoJoin(dir, tissue) == dir \o tissue \o ".tiff"

\* Line 37: os.path.join(save_path, tissue + '.tiff')
MaskFilepath(dir, tissue) == dir \o "/" \o tissue \o ".tiff"

\* Lines 36-40: the mask is written, then added to the dict.
GM_Write ==
    /\ pc = "gm_write"
    /\ calls' = Append(calls, "im_utils.write_3d")
    /\ \/ LET path == MaskFilepath(save_path, tissue_strs[idx])
          IN  /\ files' = {f \in files : f.path # path}
                             \cup {[path |-> path, mask |-> mask]}
              /\ gm_masks' = DictSet(gm_masks, tissue_strs[idx], mask)
              /\ idx' = idx + 1
              /\ pc' = "gm_loop"
              /\ UNCHANGED err
       \/ Raise(WriteError) /\ UNCHANGED <<files, gm_masks, idx>>
    /\ UNCHANGED <<args, environ, fs, dicom_path, save_path, num_echos,
                   batch_size, calculate_t2_maps, tissue_strs, volume,
                   subvolumes, mask, masks, segInputs, t2_map, t2_vals>>

\* Lines 42 and 148: the loop is over, the dict is returned to parse_args.
GM_Return ==
    /\ pc = "gm_loop"
    /\ idx > Len(tissue_strs)
    /\ masks' = Bound(gm_masks)
    /\ pc' = "t2call"
    /\ UNCHANGED <<err, args, environ, fs, calls, dicom_path, save_path,
                   num_echos, batch_size, calculate_t2_maps, tissue_strs,
                   volume, subvolumes, idx, mask, gm_masks, files, segInputs,
                   t2_map, t2_vals>>

\* Lines 150-152: the name calculate_t2_maps is the local of line 130, a
\* bool, and calling it raises TypeError.
CallT2 ==
    /\ pc = "t2call"
    /\ IF args.dess /\ calculate_t2_maps
       THEN Raise(NotCallableError)
       ELSE pc' = "done" /\ UNCHANGED err
    /\ UNCHANGED <<args, environ, fs, calls, dicom_path, save_path, num_echos,
                   batch_size, calculate_t2_maps, tissue_strs, volume,
                   subvolumes, idx, mask, gm_masks, masks, files, segInputs,
                   t2_map, t2_vals>>

Next ==
    \/ Import
    \/ ParseCommandLine
    \/ SetGpu
    \/ GetDicomPath
    \/ ResolveSavePath
    \/ CheckDicomDir
    \/ EnsureSaveDir
    \/ CheckDessT2
    \/ Configure
    \/ GM_Load
    \/ GM_Split
    \/ GM_Segment
    \/ GM_Write
    \/ GM_Return
    \/ CallT2

Spec == Init /\ [][Next]_vars

----------------------------------------------------------------------------
(* calculate_t2_maps (lines 45-57), called on a tissue -> mask dict *)

RECURSIVE Perms(_)
\* The sequences that list every element of S once.
Perms(S) ==
    IF S = {} THEN {<<>>}
    ELSE UNION {{<<x>> \o q : q \in Perms(S \ {x})} : x \in S}

\* The dicts calculate_t2_maps can be given: distinct tissue keys, in any
\* order, each with a mask.
MaskDicts ==
    UNION {{[k \in 1..Len(q) |-> <<q[k], [shape |-> s, tissue |-> q[k]]>>] :
               q \in Perms(K), s \in 1..MaxSlices} : K \in SUBSET Tissues}

InitT2 ==
    /\ pc = "t2_load"
    /\ err = NoError
    /\ args = NoArgs
    /\ environ = None
    /\ fs = [p \in Paths |-> "dir"]
    /\ calls = <<>>
    /\ dicom_path = "D"
    /\ save_path = "D"
    /\ num_echos = 0
    /\ batch_size = 0
    /\ calculate_t2_maps = FALSE
    /\ tissue_strs = <<>>
    /\ volume = NoVolume
    /\ subvolumes = <<>>
    /\ idx = 0
    /\ mask = NoMask
    /\ gm_masks = <<>>
    /\ masks \in {Bound(d) : d \in MaskDicts}
    /\ files = {}
    /\ segInputs = <<>>
    /\ t2_map = NoVolume
    /\ t2_vals = <<>>

\* Line 48
T2_Load ==
    /\ pc = "t2_load"
    /\ calls' = Append(calls, "utils.load_dicom")
    /\ \/ \E n \in 1..MaxSlices :
             /\ volume' = [slices |-> [k \in 1..n |-> k - 1], echo |-> -1,
                           white |-> FALSE]
             /\ pc' = "t2_calc"
             /\ UNCHANGED err
       \/ Raise(LoadError) /\ UNCHANGED volume
    /\ UNCHANGED <<args, environ, fs, dicom_path, save_path, num_echos,
                   batch_size, calculate_t2_maps, tissue_strs, subvolumes, idx,
                   mask, gm_masks, masks, files, segInputs, t2_map, t2_vals>>

\* Lines 50-52: the T2 map is computed from the loaded volume.
T2_CalcMap ==
    /\ pc = "t2_calc"
    /\ calls' = Append(calls, "dess_utils.calc_dess_t2_map")
    /\ \/ /\ t2_map' = volume
          /\ t2_vals' = <<>>
          /\ idx' = 1
          /\ pc' = "t2_loop"
          /\ UNCHANGED err
       \/ Raise(T2Error) /\ UNCHANGED <<t2_map, t2_vals, idx>>
    /\ UNCHANGED <<args, environ, fs, dicom_path, save_path, num_echos,
                   batch_size, calculate_t2_maps, tissue_strs, volume,
                   subvolumes, mask, gm_masks, masks, files, segInputs>>

\* Variant of T2_Tissue: the dict is created inside the loop.
T2_Tissue_ResetDict ==
    /\ pc = "t2_loop"
    /\ idx <= Len(masks.val)
    /\ calls' = Append(calls, "dess_utils.get_tissue_t2")
    /\ \/ LET tissue == DictKeys(masks.val)[idx]
              m == masks.val[idx][2]
          IN  /\ mask' = m
              /\ t2_vals' = DictSet(<<>>, tissue,
                                    [tissue |-> tissue, mask |-> m, t2_map |-> t2_map])
              /\ idx' = idx + 1
              /\ UNCHANGED <<pc, err>>
       \/ Raise(T2Error) /\ UNCHANGED <<mask, t2_vals, idx>>
    /\ UNCHANGED <<args, environ, fs, dicom_path, save_path, num_echos,
                   batch_size, calculate_t2_maps, tissue_strs, volume,
                   subvolumes, gm_masks, masks, files, segInputs, t2_map>>

\* Lines 53-55: one summary per key of masks, in the dict's order.
T2_Tissue ==
    /\ pc = "t2_loop"
    /\ idx <= Len(masks.val)
    /\ calls' = Append(calls, "dess_utils.get_tissue_t2")
    /\ \/ LET tissue == DictKeys(masks.val)[idx]
              m == masks.val[idx][2]
          IN  /\ mask' = m
              /\ t2_vals' = DictSet(t2_vals, tissue,
                                    [tissue |-> tissue, mask |-> m, t2_map |-> t2_map])
              /\ idx' = idx + 1
              /\ UNCHANGED <<pc, err>>
       \/ Raise(T2Error) /\ UNCHANGED <<mask, t2_vals, idx>>
    /\ UNCHANGED <<args, environ, fs, dicom_path, save_path, num_echos,
                   batch_size, calculate_t2_maps, tissue_strs, volume,
                   subvolumes, gm_masks, masks, files, segInputs, t2_map>>

\* Line 57
T2_Return ==
    /\ pc = "t2_loop"
    /\ idx > Len(masks.val)
    /\ pc' = "t2_done"
    /\ UNCHANGED <<err, args, environ, fs, calls, dicom_path, save_path,
                   num_echos, batch_size, calculate_t2_maps, tissue_strs,
                   volume, subvolumes, idx, mask, gm_masks, masks, files,
                   segInputs, t2_map, t2_vals>>

NextT2 ==
    \/ T2_Load
    \/ T2_CalcMap
    \/ T2_Tissue
    \/ T2_Return

SpecT2 == InitT2 /\ [][NextT2]_vars

----------------------------------------------------------------------------
(* Properties *)

\* The command line has been parsed: args is the run's namespace.
Parsed == pc \notin {"import", "parse"}

\* Every call named in `later` comes after a call of `first`.
Precedes(first, later) ==
    \A k \in 1..Len(calls) :
        calls[k] \in later => \E j \in 1..(k - 1) : calls[j] = first

Count(c) == Cardinality({k \in 1..Len(calls) : calls[k] = c})

Canonical == <<"femoral_cartilage", "tibial_cartilage", "meniscus",
               "patellar_cartilage">>

\* The tissues the flags -f -t -m -p ask for.
Requested ==
    {x \in {args.f, args.t, args.m, args.p} : x # None}

\* The tissues of the run, in the canonical order.
Expected ==
    SelectSeq(Canonical, LAMBDA x : Requested = {} \/ x \in Requested)

\* The save path the arguments resolve to.
ResolvedSave == IF args.save = "" THEN args.dicom ELSE args.save

\* C1: with --dess and --t2, once generate_mask has returned (the dicom path
\* was a directory and every collaborator call succeeded), the run does not
\* end in an error, and when it is over the T2 flow has run: load_dicom a
\* second time, calc_dess_t2_map, get_tissue_t2 for every tissue.
C1_T2MapsComputed ==
    (Parsed /\ args.dess /\ args.t2 /\ masks.bound) =>
        /\ pc # "error"
        /\ pc = "done" =>
              /\ Count("utils.load_dicom") = 2
              /\ Count("dess_utils.calc_dess_t2_map") = 1
              /\ Count("dess_utils.get_tissue_t2") = Len(masks.val)

\* C2, as claimed: a run with --t2 and without --dess ends in the
\* configuration error that names --dess, with no DICOM load, no
\* segmentation and no mask file written before it.
C2_AlwaysDessError ==
    (Parsed /\ args.t2 /\ ~args.dess) =>
        /\ pc # "done"
        /\ pc = "error" => err = DessError
        /\ \A k \in 1..Len(calls) :
              calls[k] \notin {"utils.load_dicom", "models.generate_mask",
                               "im_utils.write_3d"}

\* C2, amended: a run with --t2 and without --dess never loads a DICOM,
\* never segments and never writes a mask, and never gets past argument
\* validation; it ends in the configuration error naming --dess when the
\* dicom path is given and is a directory and the save path is a directory or
\* can be created, and in the earlier missing-argument, directory or
\* save-path error otherwise.
C2_T2WithoutDessFails ==
    (Parsed /\ args.t2 /\ ~args.dess) =>
        /\ pc \in {"gpu", "dicom", "save", "isdir", "mkdir", "flags", "error"}
        /\ \A k \in 1..Len(calls) :
              calls[k] \notin {"utils.load_dicom", "models.generate_mask",
                               "im_utils.write_3d"}
        /\ files = {}
        /\ pc = "error" =>
              /\ err \in {NoDicomError, DirectoryError, NoneTypePathError,
                          FileExistsError, DessError}
              /\ err = NoDicomError <=> args.dicom = None
              /\ (/\ args.dicom # None
                  /\ fs[args.dicom] = "dir"
                  /\ ResolvedSave # None
                  /\ fs[ResolvedSave] # "file") => err = DessError

C2_Witness ==
    /\ pc = "error"
    /\ err = DessError
    /\ args.t2
    /\ ~args.dess
    /\ "os.makedirs" \in {calls[k] : k \in 1..Len(calls)}

\* C3: when the dicom path is given and is not an existing directory, the
\* run ends in the directory error at the check of line 118: os.makedirs is
\* never called and nothing after the check runs, whatever -s is.
C3_DirectoryErrorBeforeMakedirs ==
    (Parsed /\ args.dicom # None /\ fs[args.dicom] # "dir") =>
        /\ pc \in {"gpu", "dicom", "save", "isdir", "error"}
        /\ \A k \in 1..Len(calls) : calls[k] # "os.makedirs"
        /\ pc = "error" => err = DirectoryError

C3_Witness ==
    /\ pc = "error"
    /\ err = DirectoryError
    /\ args.save = "S"
    /\ fs["S"] = "absent"
    /\ fs["D"] = "file"

\* C4: the dict generate_mask returns has exactly the requested tissues as
\* keys, all four when no flag is set, in the canonical order femoral,
\* tibial, meniscus, patellar, each key once.
C4_KeysAreRequestedTissues ==
    masks.bound =>
        /\ DictKeys(masks.val) = Expected
        /\ DictKeySet(masks.val) = (IF Requested = {} THEN Tissues ELSE Requested)
        /\ Cardinality(DictKeySet(masks.val)) = Len(masks.val)

C4_Witness ==
    /\ masks.bound
    /\ args.f = None
    /\ args.t # None
    /\ args.m = None
    /\ args.p # None
    /\ DictKeys(masks.val) = <<"tibial_cartilage", "patellar_cartilage">>

\* C5: a mask whose shape is not the shape of the segmented volume stops the
\* run with the assertion error before the mask is written or added to the
\* dict; every file written and every mask of the dict has the volume's
\* shape.
C5_ShapeCheckedBeforeWrite ==
    /\ \A f \in files : f.mask.shape = Shape(volume)
    /\ \A k \in 1..Len(gm_masks) : gm_masks[k][2].shape = Shape(volume)
    /\ pc = "gm_write" => mask.shape = Shape(volume)
    /\ err = ShapeAssertionError =>
          /\ mask.shape # Shape(volume)
          /\ mask.tissue = segInputs[Len(segInputs)].tissue
          /\ mask.tissue \notin DictKeySet(gm_masks)
          /\ \A f \in files : f.mask.tissue # mask.tissue
          /\ Count("im_utils.write_3d") = Len(segInputs) - 1
          /\ ~masks.bound

C5_Witness ==
    /\ err = ShapeAssertionError
    /\ Len(segInputs) = 2
    /\ Cardinality(files) = 1
    /\ mask.shape # Shape(volume)

\* C6: when calculate_t2_maps has returned, t2_vals has the keys of the
\* masks it was given: one summary per mask, none added, none missing.
C6_T2KeysAreMaskKeys ==
    pc = "t2_done" =>
        /\ DictKeySet(t2_vals) = DictKeySet(masks.val)
        /\ Len(t2_vals) = Len(masks.val)
        /\ \A k \in 1..Len(t2_vals) : t2_vals[k][2].mask = masks.val[k][2]

C6_Witness ==
    /\ pc = "t2_done"
    /\ Len(masks.val) = 3
    /\ Len(t2_vals) = 3

\* C7: the save path is a directory before any mask is written (created by
\* os.makedirs when it did not exist), and when generate_mask has returned
\* the files written are exactly <save path>/<tissue>.tiff for the requested
\* tissues, each written once.
C7_OneFilePerTissue ==
    /\ pc \in {"flags", "config", "gm_load", "gm_split", "gm_loop", "gm_write",
               "t2call", "done"} => fs[ResolvedSave] = "dir"
    /\ files # {} => fs[ResolvedSave] = "dir"
    /\ Precedes("os.path.isdir", {"im_utils.write_3d"})
    /\ masks.bound =>
          /\ {f.path : f \in files} =
                {ResolvedSave \o "/" \o Expected[k] \o ".tiff" : k \in 1..Len(Expected)}
          /\ Cardinality(files) = Len(Expected)
          /\ Count("im_utils.write_3d") = Len(Expected)
          /\ \A f \in files : f.path = ResolvedSave \o "/" \o f.mask.tissue \o ".tiff"

C7_Witness ==
    /\ masks.bound
    /\ args.save = "S"
    /\ Count("os.makedirs") = 1
    /\ args.f # None
    /\ args.m # None
    /\ args.t = None
    /\ args.p = None
    /\ {f.path : f \in files} = {"S/femoral_cartilage.tiff", "S/meniscus.tiff"}

\* C8: the volume is split into 2 sub-volumes with --dess and into 1
\* without, and every models.generate_mask call of a run gets the same
\* volume: sub-volume 0, whitened.
C8_FirstEchoSegmented ==
    /\ subvolumes # <<>> => Len(subvolumes) = (IF args.dess THEN 2 ELSE 1)
    /\ \A k \in 1..Len(segInputs) :
          /\ subvolumes # <<>>
          /\ segInputs[k].volume.echo = 0
          /\ segInputs[k].volume.white
          /\ segInputs[k].volume.slices = subvolumes[1].slices
          /\ segInputs[k].volume = segInputs[1].volume
          /\ segInputs[k].tissue = Expected[k]

C8_Witness ==
    /\ args.dess
    /\ Len(subvolumes) = 2
    /\ Len(segInputs) = 3
    /\ Len(subvolumes[2].slices) > 0
    /\ subvolumes[1].slices # subvolumes[2].slices

\* C9: with --gpu, CUDA_VISIBLE_DEVICES is set before the models module is
\* loaded, before any attribute of models is read and before the first
\* models.generate_mask call.
C9_GpuSetBeforeModels ==
    (Parsed /\ args.gpu # None) =>
        Precedes("set CUDA_VISIBLE_DEVICES",
                 {"import models", "read models.*_STR", "models.generate_mask"})

\* C10: without -d the run ends in the missing-argument error, which is not
\* the directory error, before any I/O: no directory check, no makedirs, no
\* DICOM load, no segmentation, no file written; and nothing runs after the
\* error.
C10_NoDicomFailsBeforeIO ==
    (Parsed /\ args.dicom = None) =>
        /\ pc \in {"gpu", "dicom", "error"}
        /\ pc = "error" => (err = NoDicomError /\ ~ENABLED Next)
        /\ NoDicomError # DirectoryError
        /\ \A k \in 1..Len(calls) :
              calls[k] \notin {"os.path.isdir", "os.makedirs", "utils.load_dicom",
                               "models.generate_mask", "im_utils.write_3d"}
        /\ files = {}
        /\ fs \in [Paths -> Kinds] /\ masks = Unbound

C10_Witness ==
    /\ pc = "error"
    /\ err = NoDicomError
    /\ args.dicom = None
    /\ args.save = "S"
    /\ fs["S"] = "absent"
    /\ args.t2

====
